---- MODULE Spec2Model ----
(***************************************************************************)
(* A model of tokio-bincode's BinCodec<T> (src/src/lib.rs): a tokio codec  *)
(* that serializes messages with bincode, either raw (feature big_data     *)
(* off, "strategy A") or behind tokio's LengthDelimitedCodec (feature      *)
(* big_data on, "strategy B").                                             *)
(*                                                                         *)
(* bincode 1.x and tokio 0.1 are dependencies of the crate.  The operators *)
(* that stand for them (serialize, deserialize_from, lower_decode, ...)    *)
(* follow what those libraries do at the call sites of lib.rs: bincode's   *)
(* fixed-width integer encoding (u32 variant index, u64 sequence length),  *)
(* its byte limit, and LengthDelimitedCodec's 4-byte big-endian length     *)
(* header with its Head/Data decode state.                                 *)
(***************************************************************************)
EXTENDS Integers, Sequences, FiniteSets, TLC

\* ------------------------------------------------------------------ bounds
\* Bytes that the transport may deliver on its own are drawn from 0..MaxByte.
MaxByte == 1
\* Encode and the stray bytes of the transport append only to a buffer
\* shorter than this.
MaxBuf == 5
\* Longest log of codec calls.
MaxCalls == 4
\* Most messages the peer sends in one run.
MaxSent == 2
\* The byte limit and the frame limit of the non-default configurations.
SmallLimit == 12
SmallFrameLen == 4
\* Integers read from the wire are capped here (2^24).
IntCap == 16777216
\* Longest log of read calls on one Reader, and the largest caller buffer.
MaxReads == 3
MaxRead == 3

\* ------------------------------------------------------- program constants
\* Width of bincode's enum variant index (u32) and of tokio's length header.
U32Bytes == 4
\* Width of bincode's sequence length (u64).
U64Bytes == 8
\* LengthDelimitedCodec's default max_frame_length, 8 * 1024 * 1024.
DefaultMaxFrameLen == 8388608
\* "no byte limit" of bincode::config()
Infinite == -1

Byte == 0..MaxByte

Min(a, b) == IF a < b THEN a ELSE b

Take(s, n) == SubSeq(s, 1, Min(n, Len(s)))
Drop(s, n) == SubSeq(s, Min(n, Len(s)) + 1, Len(s))

Reverse(s) == [i \in 1..Len(s) |-> s[Len(s) + 1 - i]]

\* little-endian / big-endian fixed-width integers (byteorder crate)
RECURSIVE ToLE(_, _)
ToLE(n, w) == IF w = 0 THEN <<>> ELSE <<n % 256>> \o ToLE(n \div 256, w - 1)
ToBE(n, w) == Reverse(ToLE(n, w))

\* Reading an integer back.  Every value of IntCap or more is read as IntCap:
\* all the code does with such a value is compare it with a variant count, a
\* number of bytes present or a frame limit, all far below IntCap.
Shift(b, hi) == IF hi >= IntCap \div 256 THEN IntCap ELSE b + 256 * hi
RECURSIVE FromLE(_)
FromLE(bs) == IF bs = <<>> THEN 0 ELSE Shift(bs[1], FromLE(Tail(bs)))
FromBE(bs) == FromLE(Reverse(bs))

\* ------------------------------------------------------------ message types
\* MyProtocol: the unit struct of the crate documentation.
\* Mock:       enum { One, Two } of tests::it_works.
\* BigMock:    enum { One(Vec<u8>), Two } of tests::big_data.
Types == {"MyProtocol", "Mock", "BigMock"}

Msg(variant, data) == [variant |-> variant, data |-> data]

\* The Vec<u8> payloads of Mock::One in the runs.
Payloads == {<<>>, <<0>>, <<1, 0>>}

Values(ty) ==
  CASE ty = "MyProtocol" -> {Msg("MyProtocol", <<>>)}
    [] ty = "Mock"       -> {Msg("One", <<>>), Msg("Two", <<>>)}
    [] ty = "BigMock"    -> {Msg("One", d) : d \in Payloads} \cup {Msg("Two", <<>>)}

\* ------------------------------------------------------------ bincode::Config
\* limit: Infinite or a byte count; big_endian: the integer byte order.
DefaultConfig == [limit |-> Infinite, big_endian |-> FALSE]

PutInt(config, n, w) == IF config.big_endian THEN ToBE(n, w) ELSE ToLE(n, w)
GetInt(config, bs)   == IF config.big_endian THEN FromBE(bs) ELSE FromLE(bs)

\* serde-derived variant index
VariantIndex(variant) == IF variant = "Two" THEN 1 ELSE 0

\* The bytes bincode writes for a value, without the limit check.
SerializeBytes(ty, config, v) ==
  CASE ty = "MyProtocol" -> <<>>
    [] ty = "Mock"       -> PutInt(config, VariantIndex(v.variant), U32Bytes)
    [] ty = "BigMock"    ->
         IF v.variant = "One"
         THEN PutInt(config, 0, U32Bytes)
              \o PutInt(config, Len(v.data), U64Bytes) \o v.data
         ELSE PutInt(config, 1, U32Bytes)

\* bincode's SizeChecker: the size is counted field by field, not measured.
SizeOf(ty, v) ==
  CASE ty = "MyProtocol" -> 0
    [] ty = "Mock"       -> U32Bytes
    [] ty = "BigMock"    -> IF v.variant = "One"
                            THEN U32Bytes + U64Bytes + Len(v.data)
                            ELSE U32Bytes

\* Config::serialized_size: Err(SizeLimit) when the size exceeds the limit.
serialized_size(ty, config, v) ==
  IF config.limit # Infinite /\ SizeOf(ty, v) > config.limit
  THEN [ok |-> FALSE, size |-> 0]
  ELSE [ok |-> TRUE, size |-> SizeOf(ty, v)]

\* Config::serialize: checks the size against the limit, then writes.
serialize(ty, config, v) ==
  IF serialized_size(ty, config, v).ok
  THEN [ok |-> TRUE, bytes |-> SerializeBytes(ty, config, v)]
  ELSE [ok |-> FALSE, bytes |-> <<>>]

\* ------------------------------------------------------ reader::Reader
\* buf: the part of the slice not read yet; amount: bytes handed out so far.
ReaderNew(bytes) == [buf |-> bytes, amount |-> 0]

\* Mutant: the bytes are copied out, the slice is not moved past them.
ReadBytesPeek(r, bytes_read) ==
  [reader |-> [buf |-> r.buf, amount |-> r.amount + bytes_read],
   bytes |-> Take(r.buf, bytes_read),
   bytes_read |-> bytes_read]

\* <&mut Reader as Read>::read with a caller buffer of n bytes: the slice's
\* own read copies bytes_read = min(n, remaining) bytes and moves past them.
ReadBytes(r, bytes_read) ==
  [reader |-> [buf |-> Drop(r.buf, bytes_read),
               amount |-> r.amount + bytes_read],
   bytes |-> Take(r.buf, bytes_read),
   bytes_read |-> bytes_read]

\* Mutant: amount counts the bytes asked for, not the bytes copied.
ReaderReadAsked(r, n) ==
  [reader |-> [buf |-> Drop(r.buf, n), amount |-> r.amount + n],
   bytes |-> Take(r.buf, n),
   bytes_read |-> Min(n, Len(r.buf))]

ReaderRead(r, n) == ReadBytes(r, Min(n, Len(r.buf)))

\* std::io::Read::read_exact over ReaderRead: read until n bytes are in; a
\* read of zero bytes is UnexpectedEof.
ReadMore(x, rest) ==
  [ok |-> rest.ok, reader |-> rest.reader, bytes |-> x.bytes \o rest.bytes]

RECURSIVE ReadExact(_, _)
ReadNext(x, n) ==
  IF x.bytes_read = 0
  THEN [ok |-> FALSE, reader |-> x.reader, bytes |-> <<>>]
  ELSE ReadMore(x, ReadExact(x.reader, n - x.bytes_read))

ReadExact(r, n) ==
  IF n = 0 THEN [ok |-> TRUE, reader |-> r, bytes |-> <<>>]
  ELSE ReadNext(ReaderRead(r, n), n)

\* ------------------------------------------------- bincode deserializer
\* A deserializer is [reader, limit]: limit is what is left of the byte limit.
\* Reading a fixed-width field first charges the limit (Err(SizeLimit) when
\* it is exhausted, before anything is read), then reads exactly w bytes.
Charged(de, w, x) ==
  [ok |-> x.ok,
   de |-> [reader |-> x.reader,
           limit |-> IF de.limit = Infinite THEN Infinite ELSE de.limit - w],
   bytes |-> x.bytes]

ReadField(de, w) ==
  IF de.limit # Infinite /\ w > de.limit
  THEN [ok |-> FALSE, de |-> de, bytes |-> <<>>]
  ELSE Charged(de, w, ReadExact(de.reader, w))

\* serde's Vec<u8> visitor over bincode's sequence access: len elements,
\* one u8 each, stopping at the first element that cannot be read.
RECURSIVE ReadVec(_, _, _)
ReadElement(x, len, acc) ==
  IF ~x.ok THEN [ok |-> FALSE, de |-> x.de, data |-> acc]
  ELSE ReadVec(x.de, len - 1, acc \o x.bytes)

ReadVec(de, len, acc) ==
  IF len = 0 THEN [ok |-> TRUE, de |-> de, data |-> acc]
  ELSE ReadElement(ReadField(de, 1), len, acc)

Failed(de) == [ok |-> FALSE, value |-> Msg("", <<>>), reader |-> de.reader]
Done(de, v) == [ok |-> TRUE, value |-> v, reader |-> de.reader]

\* Mock::One(Vec<u8>): the payload, after its u64 length
VisitVec(vec) ==
  IF ~vec.ok THEN Failed(vec.de) ELSE Done(vec.de, Msg("One", vec.data))

VisitLen(config, len) ==
  IF ~len.ok THEN Failed(len.de)
  ELSE VisitVec(ReadVec(len.de, GetInt(config, len.bytes), <<>>))

\* the serde-derived enum visitor: variant idx of Mock
VisitVariant(ty, config, de, idx) ==
  IF idx = 1 THEN Done(de, Msg("Two", <<>>))
  ELSE IF idx # 0 THEN Failed(de)
  ELSE IF ty = "Mock" THEN Done(de, Msg("One", <<>>))
  ELSE VisitLen(config, ReadField(de, U64Bytes))

\* the u32 variant index
VisitEnum(ty, config, tag) ==
  IF ~tag.ok THEN Failed(tag.de)
  ELSE VisitVariant(ty, config, tag.de, GetInt(config, tag.bytes))

Deserializer(config, reader) == [reader |-> reader, limit |-> config.limit]

\* Config::deserialize_from::<T>(reader): one value of type ty, or an error;
\* reader is the reader as the deserializer left it.  A unit struct reads
\* nothing.
deserialize_from(ty, config, reader) ==
  IF ty = "MyProtocol"
  THEN Done(Deserializer(config, reader), Msg("MyProtocol", <<>>))
  ELSE VisitEnum(ty, config,
                 ReadField(Deserializer(config, reader), U32Bytes))

\* Config::deserialize::<T>(&bytes): the same deserializer over a slice,
\* with the configuration's byte limit replaced by Infinite (the slice
\* bounds the reads); bytes after the value are ignored.
FromSlice(x) == [ok |-> x.ok, value |-> x.value]

WithOtherLimit(config, limit) == [config EXCEPT !.limit = limit]

deserialize(ty, config, bytes) ==
  FromSlice(deserialize_from(ty, WithOtherLimit(config, Infinite),
                             ReaderNew(bytes)))

\* ----------------------------------- tokio LengthDelimitedCodec ("lower")
\* lower = [max_frame_len, state, n]: the builder's frame limit and the
\* decode state, Head, or Data with the n bytes of body awaited.
HeadLen == U32Bytes

LowerNew(max_frame_len) ==
  [max_frame_len |-> max_frame_len, state |-> "Head", n |-> 0]

\* Mutant: after a frame the state stays Data(n).
lower_decode_data_sticky(lower, n, src) ==
  IF Len(src) < n
  THEN [kind |-> "None", frame |-> <<>>, src |-> src,
        lower |-> [lower EXCEPT !.state = "Data", !.n = n]]
  ELSE [kind |-> "Some", frame |-> Take(src, n), src |-> Drop(src, n),
        lower |-> [lower EXCEPT !.state = "Data", !.n = n]]

\* decode_data: wait for n bytes of body, split them off, back to Head.
lower_decode_data(lower, n, src) ==
  IF Len(src) < n
  THEN [kind |-> "None", frame |-> <<>>, src |-> src,
        lower |-> [lower EXCEPT !.state = "Data", !.n = n]]
  ELSE [kind |-> "Some", frame |-> Take(src, n), src |-> Drop(src, n),
        lower |-> [lower EXCEPT !.state = "Head", !.n = 0]]

\* decode_head, once the whole header is there and reads n: a length above
\* max_frame_len is an error; else the header is dropped from src and the
\* state is Data(n).
lower_decode_head(lower, n, src) ==
  IF n > lower.max_frame_len
  THEN [kind |-> "Err", frame |-> <<>>, src |-> src, lower |-> lower]
  ELSE lower_decode_data(lower, n, Drop(src, HeadLen))

\* LengthDelimitedCodec::decode
lower_decode(lower, src) ==
  IF lower.state = "Data" THEN lower_decode_data(lower, lower.n, src)
  ELSE IF Len(src) < HeadLen
  THEN [kind |-> "None", frame |-> <<>>, src |-> src, lower |-> lower]
  ELSE lower_decode_head(lower, FromBE(Take(src, HeadLen)), src)

\* LengthDelimitedCodec::encode: rejects a blob above max_frame_len, else
\* appends the 4-byte big-endian length and the blob.
lower_encode(lower, data, dst) ==
  IF Len(data) > lower.max_frame_len
  THEN [ok |-> FALSE, dst |-> dst]
  ELSE [ok |-> TRUE, dst |-> dst \o ToBE(Len(data), HeadLen) \o data]

\* ------------------------------------------------------------- BinCodec<T>
NoItem == Msg("", <<>>)

\* what decode returns, with the buffer and the lower state it leaves
Returns(kind, item, buf, lower) ==
  [kind |-> kind, item |-> item, buf |-> buf, lower |-> lower]

\* buf.split_to(amount): the buffer without its first amount bytes
split_to(buf, amount) == Drop(buf, amount)

\* Mutant: a frame that fails to deserialize is put back in front of the
\* buffer.
DecodedFramePutBack(x, m) ==
  IF m.ok THEN Returns("Some", m.value, x.src, x.lower)
  ELSE Returns("Err", NoItem, x.frame \o x.src, x.lower)

\* the Some(buf) arm of lib.rs 95-96: m is the frame deserialized
DecodedFrame(x, m) ==
  IF m.ok THEN Returns("Some", m.value, x.src, x.lower)
  ELSE Returns("Err", NoItem, x.src, x.lower)

\* lib.rs 95-99 on the result x of self.lower.decode(src)
DecodedLower(ty, config, x) ==
  IF x.kind = "Err" THEN Returns("Err", NoItem, x.src, x.lower)
  ELSE IF x.kind = "None" THEN Returns("None", NoItem, x.src, x.lower)
  ELSE DecodedFrame(x, deserialize(ty, config, x.frame))

\* Mutant: "no complete frame yet" from the sub-framer is reported as an error.
DecodedLowerStrict(ty, config, x) ==
  IF x.kind = "Some" THEN DecodedFrame(x, deserialize(ty, config, x.frame))
  ELSE Returns("Err", NoItem, x.src, x.lower)

decode_big_data_strict(ty, config, lower, src) ==
  DecodedLowerStrict(ty, config, lower_decode(lower, src))

\* Mutant: the bytes that have arrived are taken out of the buffer although
\* the frame is not complete.
DecodedLowerDrain(ty, config, x) ==
  IF x.kind = "Err" THEN Returns("Err", NoItem, x.src, x.lower)
  ELSE IF x.kind = "None" THEN Returns("None", NoItem, <<>>, x.lower)
  ELSE DecodedFrame(x, deserialize(ty, config, x.frame))

decode_big_data_drain(ty, config, lower, src) ==
  DecodedLowerDrain(ty, config, lower_decode(lower, src))

\* Mutant: an error of the sub-framer is taken for "no complete frame yet".
DecodedLowerLenient(ty, config, x) ==
  IF x.kind = "Some" THEN DecodedFrame(x, deserialize(ty, config, x.frame))
  ELSE Returns("None", NoItem, x.src, x.lower)

decode_big_data_lenient(ty, config, lower, src) ==
  DecodedLowerLenient(ty, config, lower_decode(lower, src))

\* Decoder::decode, feature big_data (lib.rs 93-100)
decode_big_data(ty, config, lower, src) ==
  DecodedLower(ty, config, lower_decode(lower, src))

\* lib.rs 106-109 on the result of deserialize_from: an error returns at
\* once; else the buffer is advanced by the reader's amount.
DecodedRaw(buf, lower, message) ==
  IF ~message.ok THEN Returns("Err", NoItem, buf, lower)
  ELSE Returns("Some", message.value,
               split_to(buf, message.reader.amount), lower)

\* Mutant: the buffer is advanced by the reader's amount before the result
\* of the deserialization is looked at.
DecodedRawAdvanceFirst(buf, lower, message) ==
  IF ~message.ok
  THEN Returns("Err", NoItem, split_to(buf, message.reader.amount), lower)
  ELSE Returns("Some", message.value,
               split_to(buf, message.reader.amount), lower)

decode_raw_advance_first(ty, config, lower, buf) ==
  IF buf # <<>>
  THEN DecodedRawAdvanceFirst(buf, lower,
                              deserialize_from(ty, config, ReaderNew(buf)))
  ELSE Returns("None", NoItem, buf, lower)

\* Mutant: a failed deserialization is reported as "no message yet".
DecodedRawWait(buf, lower, message) ==
  IF ~message.ok THEN Returns("None", NoItem, buf, lower)
  ELSE Returns("Some", message.value,
               split_to(buf, message.reader.amount), lower)

decode_raw_wait(ty, config, lower, buf) ==
  IF buf # <<>>
  THEN DecodedRawWait(buf, lower, deserialize_from(ty, config, ReaderNew(buf)))
  ELSE Returns("None", NoItem, buf, lower)

\* Mutant: the codec remembers a failed decode (in its lower field) and
\* refuses every later call.
DecodedRawPoison(buf, lower, message) ==
  IF ~message.ok
  THEN Returns("Err", NoItem, buf, [lower EXCEPT !.state = "Data"])
  ELSE Returns("Some", message.value,
               split_to(buf, message.reader.amount), lower)

decode_raw_poisoned(ty, config, lower, buf) ==
  IF lower.state = "Data" THEN Returns("Err", NoItem, buf, lower)
  ELSE IF buf # <<>>
  THEN DecodedRawPoison(buf, lower,
                        deserialize_from(ty, config, ReaderNew(buf)))
  ELSE Returns("None", NoItem, buf, lower)

\* Mutant: the buffer is not tested for emptiness.
decode_raw_unchecked(ty, config, lower, buf) ==
  DecodedRaw(buf, lower, deserialize_from(ty, config, ReaderNew(buf)))

\* Decoder::decode, feature big_data off (lib.rs 102-113)
decode_raw(ty, config, lower, buf) ==
  IF buf # <<>>
  THEN DecodedRaw(buf, lower, deserialize_from(ty, config, ReaderNew(buf)))
  ELSE Returns("None", NoItem, buf, lower)

decode(big_data, ty, config, lower, buf) ==
  IF big_data THEN decode_big_data(ty, config, lower, buf)
  ELSE decode_raw(ty, config, lower, buf)

\* what encode returns, with the buffer it leaves
Wrote(kind, buf) == [kind |-> kind, buf |-> buf]

\* lib.rs 126-127 on the result x of self.lower.encode(bytes.into(), dst)
EncodedLower(dst, x) ==
  IF ~x.ok THEN Wrote("Err", dst) ELSE Wrote("Ok", x.dst)

\* lib.rs 125-126 on the result of serialize
Framed(lower, bytes, dst) ==
  IF ~bytes.ok THEN Wrote("Err", dst)
  ELSE EncodedLower(dst, lower_encode(lower, bytes.bytes, dst))

\* Mutant: the serialized bytes are appended without going through lower.
Unframed(lower, bytes, dst) ==
  IF ~bytes.ok THEN Wrote("Err", dst) ELSE Wrote("Ok", dst \o bytes.bytes)

encode_big_data_unframed(ty, config, lower, item, dst) ==
  Unframed(lower, serialize(ty, config, item), dst)

\* Encoder::encode, feature big_data (lib.rs 123-128)
encode_big_data(ty, config, lower, item, dst) ==
  Framed(lower, serialize(ty, config, item), dst)

\* lib.rs 133-136 on the results of serialized_size and serialize
Put(size, message, buf) ==
  IF ~size.ok THEN Wrote("Err", buf)
  ELSE IF ~message.ok THEN Wrote("Err", buf)
  ELSE Wrote("Ok", buf \o message.bytes)

\* Mutant: the message is put in front of the buffer's contents.
PutFirst(size, message, buf) ==
  IF ~size.ok \/ ~message.ok THEN Wrote("Err", buf)
  ELSE Wrote("Ok", message.bytes \o buf)

encode_raw_prepend(ty, config, item, buf) ==
  PutFirst(serialized_size(ty, config, item), serialize(ty, config, item), buf)

\* Mutant: the message is written into the buffer as it is produced, and the
\* byte limit is noticed afterwards.
encode_raw_write_through(ty, config, item, buf) ==
  IF serialize(ty, config, item).ok
  THEN Wrote("Ok", buf \o SerializeBytes(ty, config, item))
  ELSE Wrote("Err", buf \o SerializeBytes(ty, config, item))

\* Encoder::encode, feature big_data off (lib.rs 130-138)
encode_raw(ty, config, item, buf) ==
  Put(serialized_size(ty, config, item), serialize(ty, config, item), buf)

encode(big_data, ty, config, lower, item, buf) ==
  IF big_data THEN encode_big_data(ty, config, lower, item, buf)
  ELSE encode_raw(ty, config, item, buf)

\* ------------------------------------------------------------ the system
\* big_data, ty: the cargo feature and the message type T, fixed at build.
\* config, lower: the codec's fields.  buf: the buffer the codec is called
\* on.  wire: bytes a peer codec encoded that have not arrived in buf yet.
\* History: sent, the values the peer encoded; got, the messages the
\* application received; last, the codec call that led to this state
\* (NoCall after a step of the environment), with the buffer and the lower
\* state it was called on; calls, the log of all codec calls, kept (traced)
\* while the run consists of at most MaxCalls codec calls and nothing else;
\* failed, whether a decode call of the run has returned an error.
\* A Reader on its own: slice, the slice Reader::new was given; reader, the
\* Reader; reads, the log of the read calls made on it.
VARIABLES big_data, ty, config, lower, buf, wire, sent, got, last, calls,
          traced, failed, slice, reader, reads

vars == <<big_data, ty, config, lower, buf, wire, sent, got, last, calls,
          traced, failed, slice, reader, reads>>

codec == <<big_data, ty, config, lower, buf, wire, sent, got, last, calls,
           traced, failed>>

reading == <<slice, reader, reads>>

build == <<big_data, ty, config>>

\* bincode::config(), and a configuration with_config may be given instead
Configs == {DefaultConfig, [limit |-> SmallLimit, big_endian |-> TRUE]}

MaxFrameLens == {DefaultMaxFrameLen, SmallFrameLen}

\* the application takes at most MaxSent + 1 messages
MaxGot == MaxSent + 1

\* A codec call: what was called, what it returned, and the buffer and the
\* lower state it was called on.
Call(op, kind, item, before, lowerBefore) ==
  [op |-> op, kind |-> kind, item |-> item, before |-> before,
   lower_before |-> lowerBefore]

NoCall == Call("none", "None", NoItem, <<>>, LowerNew(0))

\* BinCodec::new / BinCodec::with_config (lib.rs 59-84)
Init ==
  /\ big_data \in BOOLEAN
  /\ ty \in Types
  /\ config \in Configs
  /\ lower \in {LowerNew(m) : m \in IF big_data THEN MaxFrameLens
                                    ELSE {DefaultMaxFrameLen}}
  /\ buf = <<>>
  /\ wire = <<>>
  /\ sent = <<>>
  /\ got = <<>>
  /\ last = NoCall
  /\ calls = <<>>
  /\ traced = TRUE
  /\ failed = FALSE
  /\ slice = <<>>
  /\ reader = ReaderNew(slice)
  /\ reads = <<>>

\* the log after one more call
Logged(call) ==
  /\ traced' = (traced /\ Len(calls) < MaxCalls)
  /\ calls' = IF traced /\ Len(calls) < MaxCalls THEN Append(calls, call)
              ELSE <<>>

Unlogged == traced' = FALSE /\ calls' = <<>>

\* a step of the environment: last describes no call any more
NoLast == last' = NoCall /\ Unlogged

\* a codec call that returned r becomes the last call and is logged
Called(call, r) == buf' = r.buf /\ last' = call /\ Logged(call)

\* codec.encode(item, &mut buf)
Encoded(item, r) ==
  /\ Called(Call("encode", r.kind, item, buf, lower), r)
  /\ UNCHANGED <<build, lower, wire, sent, got, failed, reading>>

Encode ==
  \E item \in Values(ty) :
    /\ Len(buf) < MaxBuf
    /\ Encoded(item, encode(big_data, ty, config, lower, item, buf))

\* codec.decode(&mut buf)
Decoded(r) ==
  /\ Called(Call("decode", r.kind, r.item, buf, lower), r)
  /\ lower' = r.lower
  /\ failed' = (failed \/ r.kind = "Err")
  /\ UNCHANGED <<build, wire, sent, got, reading>>

Decode == Decoded(decode(big_data, ty, config, lower, buf))

\* The runtime's read side (tokio's FramedRead) calls codec.decode(&mut buf)
\* and hands a returned message to the application.
Received(r) ==
  /\ buf' = r.buf
  /\ lower' = r.lower
  /\ got' = IF r.kind = "Some" THEN Append(got, r.item) ELSE got
  /\ last' = Call("decode", r.kind, r.item, buf, lower)
  /\ Unlogged
  /\ failed' = (failed \/ r.kind = "Err")
  /\ UNCHANGED <<build, wire, sent, reading>>

Receive ==
  /\ Len(got) < MaxGot
  /\ Received(decode(big_data, ty, config, lower, buf))

\* The peer's codec (same feature, type and configuration) encodes a value
\* into its outgoing buffer.
PeerEncoded(item, r) ==
  /\ r.kind = "Ok"
  /\ wire' = r.buf
  /\ sent' = Append(sent, item)
  /\ NoLast
  /\ UNCHANGED <<build, lower, buf, got, failed, reading>>

PeerEncode ==
  \E item \in Values(ty) :
    /\ Len(sent) < MaxSent
    /\ PeerEncoded(item, encode(big_data, ty, config, lower, item, wire))

\* The runtime reads the next k bytes of the transport into buf.
Deliver ==
  \E k \in 1..Len(wire) :
    /\ buf' = buf \o Take(wire, k)
    /\ wire' = Drop(wire, k)
    /\ NoLast
    /\ UNCHANGED <<build, lower, sent, got, failed, reading>>

\* The runtime reads a byte that no peer codec produced.
Fill ==
  \E b \in Byte :
    /\ Len(buf) < MaxBuf
    /\ buf' = Append(buf, b)
    /\ NoLast
    /\ UNCHANGED <<build, lower, wire, sent, got, failed, reading>>

Next == Encode \/ Decode \/ Fill

Spec == Init /\ [][Next]_vars

\* Runs of codec calls alone, on one buffer.
NextCalls == Encode \/ Decode

SpecCalls == Init /\ [][NextCalls]_vars

\* Runs in which every byte of buf comes from the peer's codec.
NextStream == PeerEncode \/ Deliver \/ Receive

SpecStream == Init /\ [][NextStream]_vars

\* ---------------------------------------------------- a Reader on its own
\* decode makes its Reader over a buffer that is not empty (lib.rs 104-105).
Slices == UNION {[1..n -> Byte] : n \in 1..MaxBuf}

\* reader::Reader::new(&buf[..]), the codec not further involved
InitReader ==
  /\ big_data = FALSE
  /\ ty = "Mock"
  /\ config = DefaultConfig
  /\ lower = LowerNew(DefaultMaxFrameLen)
  /\ buf = <<>>
  /\ wire = <<>>
  /\ sent = <<>>
  /\ got = <<>>
  /\ last = NoCall
  /\ calls = <<>>
  /\ traced = TRUE
  /\ failed = FALSE
  /\ slice \in Slices
  /\ reader = ReaderNew(slice)
  /\ reads = <<>>

\* a read call: the size n of the caller's buffer, the bytes copied into it,
\* the count returned and the reader's amount after the call
ReadCall(n, x) ==
  [n |-> n, bytes |-> x.bytes, bytes_read |-> x.bytes_read,
   amount |-> x.reader.amount]

\* (&mut reader).read(&mut [0; n])
ReadCalled(n, x) ==
  /\ reader' = x.reader
  /\ reads' = Append(reads, ReadCall(n, x))
  /\ UNCHANGED <<codec, slice>>

Read ==
  \E n \in 0..MaxRead :
    /\ Len(reads) < MaxReads
    /\ ReadCalled(n, ReaderRead(reader, n))

NextReader == Read

SpecReader == InitReader /\ [][NextReader]_vars

\* ================================================================ claims
IsPrefix(p, s) == Len(p) <= Len(s) /\ SubSeq(s, 1, Len(p)) = p

\* the wire bytes of a value under the codec's configuration
Enc(v) == SerializeBytes(ty, config, v)
CanEnc(v) == serialize(ty, config, v).ok

\* the buffer after the i-th logged call
After(i) == IF i = Len(calls) THEN buf ELSE calls[i + 1].before

\* the i-th logged call is a successful encode on an empty buffer
EncodedOnEmpty(i) ==
  /\ calls[i].op = "encode" /\ calls[i].kind = "Ok" /\ calls[i].before = <<>>

\* C1: strategy A round trip: encode(v) on an empty buffer followed by one
\* decode returns the message v and leaves the buffer empty.
C1_RoundTripA ==
  \A i \in 1..(Len(calls) - 1) :
    (~big_data /\ EncodedOnEmpty(i) /\ calls[i + 1].op = "decode")
      => /\ calls[i + 1].kind = "Some"
         /\ calls[i + 1].item = calls[i].item
         /\ After(i + 1) = <<>>

\* What does hold: the round trip of every value with a non-empty encoding.
RoundTripA_NonEmpty ==
  \A i \in 1..(Len(calls) - 1) :
    (~big_data /\ EncodedOnEmpty(i) /\ calls[i + 1].op = "decode"
       /\ Enc(calls[i].item) # <<>>)
      => /\ calls[i + 1].kind = "Some"
         /\ calls[i + 1].item = calls[i].item
         /\ After(i + 1) = <<>>

\* C2: strategy B round trip: on a fresh codec and an empty buffer, an
\* encode(v) that succeeds (v fits the frame limit) followed by one decode
\* returns the message v and leaves the buffer empty.
C2_RoundTripB ==
  \A i \in 1..(Len(calls) - 1) :
    (big_data /\ EncodedOnEmpty(i) /\ calls[i + 1].op = "decode"
       /\ calls[i].lower_before.state = "Head")
      => /\ calls[i + 1].kind = "Some"
         /\ calls[i + 1].item = calls[i].item
         /\ After(i + 1) = <<>>

\* a strategy B round trip of a value with a payload has happened
C2_Witness ==
  /\ big_data /\ Len(calls) = 2
  /\ EncodedOnEmpty(1) /\ calls[1].item = Msg("One", <<1, 0>>)
  /\ calls[2].op = "decode" /\ calls[2].kind = "Some"
  /\ buf = <<>>

\* C3: strategy A frame independence: encode(v1), encode(v2) on an empty
\* buffer, then two decodes: the first returns v1 and leaves exactly the
\* encoding of v2, the second returns v2 and leaves the buffer empty.
C3_FrameIndependenceA ==
  (~big_data /\ Len(calls) = 4
     /\ EncodedOnEmpty(1)
     /\ calls[2].op = "encode" /\ calls[2].kind = "Ok"
     /\ calls[3].op = "decode" /\ calls[4].op = "decode")
    => /\ calls[3].kind = "Some" /\ calls[3].item = calls[1].item
       /\ calls[4].before = Enc(calls[2].item)
       /\ calls[4].kind = "Some" /\ calls[4].item = calls[2].item
       /\ buf = <<>>

\* What does hold: frame independence of values with non-empty encodings.
FrameIndependenceA_NonEmpty ==
  (~big_data /\ Len(calls) = 4 /\ ty # "MyProtocol"
     /\ EncodedOnEmpty(1)
     /\ calls[2].op = "encode" /\ calls[2].kind = "Ok"
     /\ calls[3].op = "decode" /\ calls[4].op = "decode")
    => /\ calls[3].kind = "Some" /\ calls[3].item = calls[1].item
       /\ calls[4].before = Enc(calls[2].item)
       /\ calls[4].kind = "Some" /\ calls[4].item = calls[2].item
       /\ buf = <<>>
\* C4: strategy B incremental arrival: while part of the one frame sent is
\* still on its way, every decode returns "no message yet" and no message
\* has been handed out; once the last chunk is in, the decode that follows
\* returns the value that was sent.
C4_IncrementalB ==
  (big_data /\ Len(sent) = 1)
    => /\ wire # <<>>
            => /\ got = <<>>
               /\ last.op = "decode" => last.kind = "None"
       /\ (wire = <<>> /\ last.op = "decode")
            => /\ got = <<sent[1]>>
               /\ last.kind # "Err"
               /\ last.before # <<>>
                    => last.kind = "Some" /\ last.item = sent[1]

\* a value with a payload arrived in several chunks: the decode that returned
\* it found the header already consumed by an earlier call
C4_Witness ==
  /\ big_data /\ sent = <<Msg("One", <<1, 0>>)>> /\ wire = <<>>
  /\ last.op = "decode" /\ last.kind = "Some"
  /\ last.lower_before.state = "Data"
  /\ got = sent

\* a decode that returned "no message yet"
ReturnedNone == last.op = "decode" /\ last.kind = "None"

\* C5 as stated: a decode that returns "no message yet" leaves the buffer
\* as it was, in either strategy.
C5_NoneLeavesBuffer == ReturnedNone => buf = last.before

\* C5 amended: such a decode leaves the buffer as it was, except that in
\* strategy B the call that finds the whole length header (and not yet the
\* whole body) removes exactly the header and remembers the length.
C5_NoneLeavesBufferButHeader ==
  ReturnedNone =>
    IF big_data /\ last.lower_before.state = "Head"
                /\ Len(last.before) >= HeadLen
    THEN /\ buf = Drop(last.before, HeadLen)
         /\ lower.state = "Data"
         /\ lower.n = FromBE(Take(last.before, HeadLen))
         /\ Len(buf) < lower.n
    ELSE /\ buf = last.before
         /\ lower = last.lower_before

\* strategy B: the header and part of the body were there, the header went
C5_Witness ==
  /\ big_data /\ ReturnedNone
  /\ Len(last.before) > HeadLen
  /\ buf = Drop(last.before, HeadLen) /\ buf # <<>>

\* C6: strategy A: a decode that returns an error leaves the buffer as it
\* was before the call.
C6_FailedDecodeKeepsBufferA ==
  (~big_data /\ last.op = "decode" /\ last.kind = "Err") => buf = last.before

\* a malformed message (variant index out of range) was refused
C6_Witness ==
  /\ ~big_data /\ ty = "Mock" /\ last.op = "decode" /\ last.kind = "Err"
  /\ last.before = <<0, 1, 0, 0, 1>>

\* C7: strategy A: when the buffer starts with the complete encoding of a
\* value v, decode returns v and leaves exactly the bytes that followed it.
C7_SuccessAdvancesExactlyA ==
  (~big_data /\ last.op = "decode") =>
    \A v \in Values(ty) :
      (CanEnc(v) /\ IsPrefix(Enc(v), last.before))
        => /\ last.kind = "Some" /\ last.item = v
           /\ buf = Drop(last.before, Len(Enc(v)))

\* What does hold: the same on every buffer that is not empty.
SuccessAdvancesExactlyA_NonEmpty ==
  (~big_data /\ last.op = "decode" /\ last.before # <<>>) =>
    \A v \in Values(ty) :
      (CanEnc(v) /\ IsPrefix(Enc(v), last.before))
        => /\ last.kind = "Some" /\ last.item = v
           /\ buf = Drop(last.before, Len(Enc(v)))

\* C8: strategy A: on a non-empty buffer that holds only a proper prefix of
\* a value's encoding decode returns an error, and decode returns "no
\* message yet" on the empty buffer only.
C8_ShortReadIsErrorA ==
  (~big_data /\ last.op = "decode") =>
    /\ \A v \in Values(ty) :
         (CanEnc(v) /\ last.before # <<>> /\ last.before # Enc(v)
            /\ IsPrefix(last.before, Enc(v)))
           => last.kind = "Err"
    /\ last.kind = "None" => last.before = <<>>

\* all of a message but its last byte had arrived
C8_Witness ==
  /\ ~big_data /\ ty = "BigMock" /\ last.op = "decode" /\ last.kind = "Err"
  /\ Len(last.before) = Len(Enc(Msg("One", <<0>>))) - 1
  /\ IsPrefix(last.before, Enc(Msg("One", <<0>>)))

\* C9: strategy A: decode on an empty buffer returns "no message yet" and
\* the buffer is still empty, whatever the message type.
C9_EmptyBufferA ==
  (~big_data /\ last.op = "decode" /\ last.before = <<>>)
    => last.kind = "None" /\ buf = <<>>

C9_Witness ==
  /\ ~big_data /\ ty = "MyProtocol"
  /\ last.op = "decode" /\ last.before = <<>> /\ last.kind = "None"

RECURSIVE ConcatEnc(_)
ConcatEnc(cs) ==
  IF cs = <<>> THEN <<>> ELSE Enc(Head(cs).item) \o ConcatEnc(Tail(cs))

\* C10: strategy A: a successful encode(v) leaves the buffer's contents P in
\* place and appends the serialization of v, serialized_size(v) bytes long;
\* a run of encodes leaves the encodings in call order, nothing in between.
C10_EncodeAppendsA ==
  /\ (~big_data /\ last.op = "encode" /\ last.kind = "Ok")
       => /\ buf = last.before \o Enc(last.item)
          /\ Len(Enc(last.item)) = serialized_size(ty, config, last.item).size
  /\ (~big_data /\ traced
        /\ \A i \in 1..Len(calls) :
             calls[i].op = "encode" /\ calls[i].kind = "Ok")
       => buf = ConcatEnc(calls)

\* a value with a payload was appended after bytes that were there before
C10_Witness ==
  /\ ~big_data /\ last.op = "encode" /\ last.kind = "Ok"
  /\ last.before = <<1, 0>> /\ last.item = Msg("One", <<1, 0>>)
  /\ Len(buf) = 16

\* C11: strategy A: an encode that returns an error leaves the buffer's
\* contents as they were before the call.
C11_FailedEncodeAppendsNothingA ==
  (~big_data /\ last.op = "encode" /\ last.kind = "Err") => buf = last.before

\* a value above the byte limit was refused on a buffer that held bytes
C11_Witness ==
  /\ ~big_data /\ last.op = "encode" /\ last.kind = "Err"
  /\ last.item = Msg("One", <<1, 0>>) /\ last.before # <<>>
  /\ ~serialized_size(ty, config, last.item).ok

\* what the sub-framer did in the last decode call
LowerDid == lower_decode(last.lower_before, last.before)

\* the first HeadLen bytes of the last decode call's buffer, read as a length
HeadOf(bytes) == FromBE(Take(bytes, HeadLen))

\* the last decode call found a whole header that declares a frame above the
\* frame limit
FrameTooBig ==
  /\ last.lower_before.state = "Head" /\ Len(last.before) >= HeadLen
  /\ HeadOf(last.before) > last.lower_before.max_frame_len

\* the bytes of the frame the last decode call found complete in its buffer,
\* and the bytes in front of what follows the frame
FrameStart == IF last.lower_before.state = "Head" THEN HeadLen ELSE 0
FrameLen ==
  IF last.lower_before.state = "Head" THEN HeadOf(last.before)
  ELSE last.lower_before.n
FrameComplete ==
  /\ Len(last.before) >= FrameStart
  /\ ~FrameTooBig
  /\ Len(last.before) >= FrameStart + FrameLen
FrameBody == SubSeq(last.before, FrameStart + 1, FrameStart + FrameLen)

\* C12: strategy B: a decode call in which the sub-framer reports a framing
\* error, or hands back a complete frame that does not deserialize, returns
\* an error: not "no message yet", not a message.
C12_ErrorPropagationB ==
  (big_data /\ last.op = "decode") =>
    /\ FrameTooBig => last.kind = "Err"
    /\ (FrameComplete /\ ~deserialize(ty, config, FrameBody).ok)
         => last.kind = "Err"
    /\ LowerDid.kind = "Err" => last.kind = "Err"

\* a header above the configured frame limit came in
C12_Witness ==
  /\ big_data /\ last.op = "decode" /\ last.kind = "Err"
  /\ FrameTooBig /\ lower.max_frame_len = SmallFrameLen

\* a complete frame that does not deserialize came in
C12_WitnessBadFrame ==
  /\ big_data /\ last.op = "decode" /\ last.kind = "Err"
  /\ FrameComplete /\ FrameLen > 0

\* the bytes the first k read calls handed out, in order
RECURSIVE HandedOut(_)
HandedOut(k) == IF k = 0 THEN <<>> ELSE HandedOut(k - 1) \o reads[k].bytes

\* the total of the counts the first k read calls returned
RECURSIVE Returned(_)
Returned(k) == IF k = 0 THEN 0 ELSE Returned(k - 1) + reads[k].bytes_read

\* C13: after any read calls of any sizes, the Reader's amount is at most the
\* length of the slice it was made over and equals the number of bytes handed
\* out, which is the slice's length minus the length of what remains.
C13_ReaderAmount ==
  /\ reader.amount <= Len(slice)
  /\ reader.amount = Returned(Len(reads))
  /\ reader.amount = Len(HandedOut(Len(reads)))
  /\ reader.amount = Len(slice) - Len(reader.buf)
  /\ HandedOut(Len(reads)) \o reader.buf = slice

\* reads of three different sizes, the last one cut short by the slice's end
C13_Witness ==
  /\ Len(slice) = 5 /\ Len(reads) = 3
  /\ reads[1].n = 1 /\ reads[2].n = 2 /\ reads[3].n = 3
  /\ reader.amount = 5

\* what was left of the slice when the i-th read call was made
Remaining(i) == Len(slice) - Returned(i - 1)

AmountBefore(i) == IF i = 1 THEN 0 ELSE reads[i - 1].amount

\* C14: a read call on an empty remainder returns zero bytes and leaves
\* amount as it was; a read call that asks for more than remains returns
\* what remains, and every later read call returns zero bytes.
C14_ReaderEndOfInput ==
  \A i \in 1..Len(reads) :
    /\ Remaining(i) = 0
         => /\ reads[i].bytes_read = 0 /\ reads[i].bytes = <<>>
            /\ reads[i].amount = AmountBefore(i)
    /\ reads[i].n > Remaining(i)
         => /\ reads[i].bytes_read = Remaining(i)
            /\ reads[i].bytes = Drop(slice, Returned(i - 1))
            /\ \A j \in (i + 1)..Len(reads) :
                 reads[j].bytes_read = 0 /\ reads[j].amount = Len(slice)

\* a read cut short by the end of the slice, then two reads at the end
C14_Witness ==
  /\ Len(slice) = 4 /\ Len(reads) = 3
  /\ reads[1].n = 3 /\ reads[1].bytes_read = 3
  /\ reads[2].n = 3 /\ reads[2].bytes_read = 1
  /\ reads[3].n = 2 /\ reads[3].bytes_read = 0

\* C15: strategy A: a decode call that returns a message removes at least
\* one byte from the buffer, whatever the message type.
C15_DecodeProgressA ==
  (~big_data /\ last.op = "decode" /\ last.kind = "Some")
    => Len(buf) < Len(last.before)

\* What does hold: the same for the types whose encodings are not empty.
DecodeProgressA_NonEmpty ==
  (~big_data /\ ty # "MyProtocol" /\ last.op = "decode" /\ last.kind = "Some")
    => Len(buf) < Len(last.before)

\* The decode that returns a message and removes nothing: a unit struct on a
\* buffer that holds bytes.
DecodeStuckA ==
  /\ ~big_data /\ ty = "MyProtocol"
  /\ last.op = "decode" /\ last.kind = "Some"
  /\ last.before # <<>> /\ buf = last.before

\* C16: strategy B: whatever the chunks the peer's frames arrive in and
\* wherever decode is called in between, the messages returned so far are a
\* prefix of the values sent; once all bytes are in and decode has returned
\* "no message yet", they are the values sent, the buffer is empty and the
\* sub-framer is in its initial state.
C16_StreamOrderB ==
  big_data =>
    /\ IsPrefix(got, sent)
    /\ (wire = <<>> /\ ReturnedNone)
         => /\ got = sent
            /\ buf = <<>>
            /\ lower = LowerNew(lower.max_frame_len)

\* two different values went through, the second with a payload
C16_Witness ==
  /\ big_data /\ Len(sent) = 2 /\ sent[1] = Msg("Two", <<>>)
  /\ sent[2] = Msg("One", <<>>) /\ ty = "BigMock"
  /\ wire = <<>> /\ ReturnedNone /\ got = sent /\ buf = <<>>

\* the first value is out while the second frame's header is in and its body
\* is still on the way
C16_WitnessMidFrame ==
  /\ big_data /\ Len(sent) = 2 /\ got = <<sent[1]>> /\ sent[1] # sent[2]
  /\ lower.state = "Data" /\ wire # <<>>

\* C17: strategy B: when the sub-framer hands back a complete frame and the
\* frame does not deserialize, decode returns the error with the frame, its
\* prefix and its body, gone from the buffer: the buffer is not what it was
\* before the call and starts with the bytes that followed the frame.
C17_BadFrameConsumedB ==
  (big_data /\ last.op = "decode" /\ last.kind = "Err" /\ FrameComplete)
    => /\ buf = Drop(last.before, FrameStart + FrameLen)
       /\ buf # last.before
       /\ lower = LowerNew(lower.max_frame_len)

\* a frame with a body that does not deserialize, and a byte behind it
C17_Witness ==
  /\ big_data /\ last.op = "decode" /\ last.kind = "Err"
  /\ FrameComplete /\ FrameLen > 0 /\ buf # <<>>

\* what a codec fresh from Init returns for the buffer of the last call
FreshDecode ==
  decode_raw(ty, config, LowerNew(DefaultMaxFrameLen), last.before)

\* strategy A: the last decode call did what a fresh codec does on the same
\* buffer; if a decode of the run has failed and the buffer now starts with
\* a whole message, the call returned it; the codec's fields are as built
StatelessA ==
  ~big_data =>
    /\ lower = LowerNew(DefaultMaxFrameLen)
    /\ last.op = "decode" =>
         /\ last.kind = FreshDecode.kind
         /\ last.item = FreshDecode.item
         /\ buf = FreshDecode.buf
         /\ \A v \in Values(ty) :
              (failed /\ last.before # <<>> /\ CanEnc(v)
                 /\ IsPrefix(Enc(v), last.before))
                => /\ last.kind = "Some" /\ last.item = v
                   /\ buf = Drop(last.before, Len(Enc(v)))

\* strategy A: no step changes the codec's fields
FieldsKeptA == ~big_data => (config' = config /\ lower' = lower)

\* C18: strategy A: what decode returns and the buffer it leaves depend on
\* the buffer's contents and the configuration alone, not on earlier calls:
\* a decode that failed on part of a message returns the message when it is
\* called again with the rest appended, and no call changes the
\* configuration.
C18_StatelessA == []StatelessA /\ [][FieldsKeptA]_vars

\* the one message sent was refused while part of it was missing and
\* returned once the rest had arrived
C18_Witness ==
  /\ ~big_data /\ failed /\ Len(sent) = 1 /\ wire = <<>>
  /\ last.op = "decode" /\ last.kind = "Some" /\ last.item = sent[1]
  /\ got = sent /\ buf = <<>>

====
